---- MODULE Spec2Model ----
(***************************************************************************)
(* Model of gerbera's Timer (src/util/timer.cc): the subscriber registry,  *)
(* the worker loop triggerWait()/notify(), the condition-variable wake     *)
(* protocol and shutdown().                                                *)
(*                                                                         *)
(* Time.  Every timestamp is stored relative to the current clock value    *)
(* (field nextNotify holds nextNotify - now), so the clock read by         *)
(* getTimespecNow is always 0 and one millisecond passing (action Tick)    *)
(* lowers every stored timestamp that lies in the future by one.  A        *)
(* timestamp in the past is not told apart from the current instant: the   *)
(* code compares a deadline only with the clock (due or not) and with      *)
(* other deadlines (which is the nearest).                                 *)
(***************************************************************************)
EXTENDS Integers, Sequences, FiniteSets, TLC

\* Largest notifyInterval a caller passes (0 is the illegal interval).
MaxInterval == 2

Observers  == {"A", "B"}
Parameters == {"p"}
Intervals  == 0..MaxInterval

\* Threads that call addTimerSubscriber / removeTimerSubscriber: one caller
\* thread, and the worker thread itself from inside an observer callback.
Callers == {"c1"}
Worker  == "worker"
Threads == Callers \cup {Worker}

VARIABLES
    subscribers,    \* std::list<TimerSubscriberElement>, in list order
    mutex,          \* owner of Timer::mutex: "none" or a thread
    waitMutex,      \* owner of Timer::waitMutex: "none" or the worker
    shutdownFlag,   \* Timer::shutdownFlag
    woken,          \* cond has been notified while the worker was parked on it
    wpc,            \* position of the worker thread
    timeout,        \* triggerWait's pointer returned by getNextNotifyTime
    wait,           \* triggerWait's local `wait`: the time left until the deadline
                    \* it was computed from (0 when the local is dead)
    idx,            \* notify(): position of the iterator `it` (1-based)
    toNotify,       \* notify(): the batch of copied elements; each copy also
                    \* records the `wait` that batched it and whether its
                    \* identity has been removed since
    cur,            \* the observer and parameter of the callback that is running,
                    \* or NoElement
    cpc,            \* per thread: position inside add/removeTimerSubscriber
    args,           \* per thread: the arguments of the call in progress
    result,         \* per thread: how its last call ended
    spc             \* position of the thread calling shutdown()

vars == <<subscribers, mutex, waitMutex, shutdownFlag, woken, wpc, timeout, wait,
          idx, toNotify, cur, cpc, args, result, spc>>

workerVars == <<wpc, timeout, wait, idx, toNotify, cur, waitMutex>>

----------------------------------------------------------------------------
\* Helpers of the element type and of the clock (timer.h, tools)

\* The current clock value, in the relative encoding of time.
getTimespecNow == 0

\* getDeltaMillis(first, second): milliseconds from first to second.
getDeltaMillis(first, second) == second - first

\* TimerSubscriberElement's constructor: nextNotify = now + notifyInterval.
TimerSubscriberElement(timerSubscriber, notifyInterval, parameter, once) ==
    [subscriber |-> timerSubscriber, notifyInterval |-> notifyInterval,
     parameter |-> parameter, once |-> once,
     nextNotify |-> getTimespecNow + notifyInterval]

\* TimerSubscriberElement::operator==: identity is (subscriber, parameter).
ElemEq(a, b) == a.subscriber = b.subscriber /\ a.parameter = b.parameter

\* TimerSubscriberElement::updateNextNotify: nextNotify = now + notifyInterval.
updateNextNotify(element) ==
    [element EXCEPT !.nextNotify = getTimespecNow + element.notifyInterval]

Ident(e) == <<e.subscriber, e.parameter>>
Ids == Observers \X Parameters
NoElement == [subscriber |-> "none", parameter |-> "none"]
NoArgs == [subscriber |-> "none", parameter |-> "none", notifyInterval |-> 0,
           once |-> FALSE, dontFail |-> FALSE]

\* Sequence helpers for std::list
RemoveAt(s, i) == [j \in 1..(Len(s) - 1) |-> IF j < i THEN s[j] ELSE s[j + 1]]
\* std::find: index of the first element equal to `element`, 0 for end()
Find(s, element) ==
    IF \E i \in DOMAIN s : ElemEq(s[i], element)
    THEN CHOOSE i \in DOMAIN s :
            /\ ElemEq(s[i], element)
            /\ \A j \in DOMAIN s : ElemEq(s[j], element) => i <= j
    ELSE 0

\* Values of the pointer `timeout` that name no element
NoPtr    == <<"none", "none">>
NullPtr  == <<"null", "null">>
Dangling == <<"dangling", "dangling">>

Parked == wpc \in {"wait_inf", "wait_timed"}

\* Timer::signal(): cond.notify_one().  It takes no lock; a notification that
\* finds no thread parked on the condition variable is lost.
signal(w) == w \/ Parked

----------------------------------------------------------------------------
Init ==
    /\ subscribers = <<>>
    /\ mutex = "none"
    /\ waitMutex = "none"
    /\ shutdownFlag = FALSE
    /\ woken = FALSE
    /\ wpc = "notstarted"
    /\ timeout = NoPtr
    /\ wait = 0
    /\ idx = 0
    /\ toNotify = <<>>
    /\ cur = NoElement
    /\ cpc = [t \in Threads |-> "idle"]
    /\ args = [t \in Threads |-> NoArgs]
    /\ result = [t \in Threads |-> "none"]
    /\ spc = "idle"

\* A crashed process takes no further step.
Alive == wpc # "crashed"

\* A thread may start a registry call: a caller thread at any time and for any
\* identity, the worker only from inside an observer callback, which removes or
\* registers again its own identity.
MayCall(t, timerSubscriber, parameter) ==
    /\ Alive
    /\ cpc[t] = "idle"
    /\ t = Worker => /\ wpc = "in_callback"
                     /\ timerSubscriber = cur.subscriber
                     /\ parameter = cur.parameter

\* Timer::run(): start the worker thread, which enters triggerWait() and takes
\* waitMutex (line 102).
Run ==
    /\ wpc = "notstarted"
    /\ wpc' = "loop"
    /\ waitMutex' = Worker
    /\ UNCHANGED <<subscribers, mutex, shutdownFlag, woken, timeout, wait,
                   idx, toNotify, cur, cpc, args, result, spc>>

----------------------------------------------------------------------------
\* addTimerSubscriber

\* History kept in the batch: SetRemoved marks the batched copies of an identity
\* whose removal has just succeeded, and a successful registration of the
\* identity clears the mark again.
SetRemoved(batch, element, flag) ==
    [i \in DOMAIN batch |->
        IF ElemEq(batch[i], element) THEN [batch[i] EXCEPT !.removed = flag]
        ELSE batch[i]]

\* AddCall without the interval test of lines 72-73.
AddCall_NoIntervalTest(t, timerSubscriber, notifyInterval, parameter, once) ==
    /\ MayCall(t, timerSubscriber, parameter)
    /\ cpc' = [cpc EXCEPT ![t] = "add_lock"]
    /\ args' = [args EXCEPT ![t] =
            [subscriber |-> timerSubscriber, parameter |-> parameter,
             notifyInterval |-> notifyInterval, once |-> once,
             dontFail |-> FALSE]]
    /\ UNCHANGED <<subscribers, mutex, shutdownFlag, woken, workerVars, spc, result>>

\* Lines 69-74: the interval test, before any lock is taken.
AddCall(t, timerSubscriber, notifyInterval, parameter, once) ==
    /\ MayCall(t, timerSubscriber, parameter)
    /\ IF notifyInterval = 0
       THEN /\ result' = [result EXCEPT ![t] = "invalid_interval"]
            /\ cpc' = [cpc EXCEPT ![t] = "return"]
            /\ UNCHANGED args
       ELSE /\ cpc' = [cpc EXCEPT ![t] = "add_lock"]
            /\ args' = [args EXCEPT ![t] =
                    [subscriber |-> timerSubscriber, parameter |-> parameter,
                     notifyInterval |-> notifyInterval, once |-> once,
                     dontFail |-> FALSE]]
            /\ UNCHANGED result
    /\ UNCHANGED <<subscribers, mutex, shutdownFlag, woken, workerVars, spc>>

\* AddLocked without the duplicate test of lines 77-81.
AddLocked_NoDupTest(t) ==
    /\ Alive
    /\ cpc[t] = "add_lock"
    /\ mutex = "none"
    /\ mutex' = t
    /\ LET element == TimerSubscriberElement(args[t].subscriber,
                          args[t].notifyInterval, args[t].parameter, args[t].once)
       IN /\ subscribers' = Append(subscribers, element)
          /\ woken' = signal(woken)
          /\ result' = [result EXCEPT ![t] = "ok"]
          /\ toNotify' = SetRemoved(toNotify, element, FALSE)
    /\ cpc' = [cpc EXCEPT ![t] = "return"]
    /\ args' = [args EXCEPT ![t] = NoArgs]
    /\ UNCHANGED <<shutdownFlag, wpc, timeout, wait, idx, cur, waitMutex, spc>>

\* AddLocked that, on a duplicate, overwrites the registered element with the
\* new one and signals before it throws.
AddLocked_Upsert(t) ==
    /\ Alive
    /\ cpc[t] = "add_lock"
    /\ mutex = "none"
    /\ mutex' = t
    /\ LET element == TimerSubscriberElement(args[t].subscriber,
                          args[t].notifyInterval, args[t].parameter, args[t].once)
       IN IF \E i \in DOMAIN subscribers : ElemEq(subscribers[i], element)
          THEN /\ result' = [result EXCEPT ![t] = "duplicate"]
               /\ subscribers' = [i \in DOMAIN subscribers |->
                                     IF ElemEq(subscribers[i], element)
                                     THEN element ELSE subscribers[i]]
               /\ woken' = signal(woken)
               /\ UNCHANGED toNotify
          ELSE /\ subscribers' = Append(subscribers, element)
               /\ woken' = signal(woken)
               /\ result' = [result EXCEPT ![t] = "ok"]
               /\ toNotify' = SetRemoved(toNotify, element, FALSE)
    /\ cpc' = [cpc EXCEPT ![t] = "return"]
    /\ args' = [args EXCEPT ![t] = NoArgs]
    /\ UNCHANGED <<shutdownFlag, wpc, timeout, wait, idx, cur, waitMutex, spc>>

\* Lines 75-83: lock mutex, then the duplicate test, push_back and signal()
\* under the lock.  The lock is released when the call returns (Return).
AddLocked(t) ==
    /\ Alive
    /\ cpc[t] = "add_lock"
    /\ mutex = "none"
    /\ mutex' = t
    /\ LET element == TimerSubscriberElement(args[t].subscriber,
                          args[t].notifyInterval, args[t].parameter, args[t].once)
       IN IF \E i \in DOMAIN subscribers : ElemEq(subscribers[i], element)
          THEN /\ result' = [result EXCEPT ![t] = "duplicate"]
               /\ UNCHANGED <<subscribers, woken, toNotify>>
          ELSE /\ subscribers' = Append(subscribers, element)
               /\ woken' = signal(woken)
               /\ result' = [result EXCEPT ![t] = "ok"]
               /\ toNotify' = SetRemoved(toNotify, element, FALSE)
    /\ cpc' = [cpc EXCEPT ![t] = "return"]
    /\ args' = [args EXCEPT ![t] = NoArgs]
    /\ UNCHANGED <<shutdownFlag, wpc, timeout, wait, idx, cur, waitMutex, spc>>

----------------------------------------------------------------------------
\* removeTimerSubscriber

\* Lines 86-88: entry of the call.
RemoveCall(t, timerSubscriber, parameter, dontFail) ==
    /\ MayCall(t, timerSubscriber, parameter)
    /\ cpc' = [cpc EXCEPT ![t] = "remove_lock"]
    /\ args' = [args EXCEPT ![t] =
            [subscriber |-> timerSubscriber, parameter |-> parameter,
             notifyInterval |-> 0, once |-> FALSE, dontFail |-> dontFail]]
    /\ UNCHANGED <<subscribers, mutex, shutdownFlag, woken, workerVars, spc, result>>

\* RemoveLocked that erases the found element without signalling the worker.
RemoveLocked_NoSignal(t) ==
    /\ Alive
    /\ cpc[t] = "remove_lock"
    /\ mutex = "none"
    /\ mutex' = t
    /\ LET element == TimerSubscriberElement(args[t].subscriber, 0,
                                             args[t].parameter, FALSE)
           it == Find(subscribers, element)
       IN IF it # 0
          THEN /\ subscribers' = RemoveAt(subscribers, it)
               /\ result' = [result EXCEPT ![t] = "ok"]
               /\ toNotify' = SetRemoved(toNotify, element, TRUE)
               /\ timeout' = IF timeout = Ident(element) THEN Dangling ELSE timeout
               /\ UNCHANGED woken
          ELSE /\ result' = [result EXCEPT ![t] =
                                IF args[t].dontFail THEN "ok_absent" ELSE "not_found"]
               /\ UNCHANGED <<subscribers, woken, toNotify, timeout>>
    /\ cpc' = [cpc EXCEPT ![t] = "return"]
    /\ args' = [args EXCEPT ![t] = NoArgs]
    /\ UNCHANGED <<shutdownFlag, wpc, wait, idx, cur, waitMutex, spc>>

\* RemoveLocked that signals the worker, and ignores dontFail, when the pair
\* is absent.
RemoveLocked_SignalAbsent(t) ==
    /\ Alive
    /\ cpc[t] = "remove_lock"
    /\ mutex = "none"
    /\ mutex' = t
    /\ LET element == TimerSubscriberElement(args[t].subscriber, 0,
                                             args[t].parameter, FALSE)
           it == Find(subscribers, element)
       IN IF it # 0
          THEN /\ subscribers' = RemoveAt(subscribers, it)
               /\ woken' = signal(woken)
               /\ result' = [result EXCEPT ![t] = "ok"]
               /\ toNotify' = SetRemoved(toNotify, element, TRUE)
               /\ timeout' = IF timeout = Ident(element) THEN Dangling ELSE timeout
          ELSE /\ result' = [result EXCEPT ![t] = "not_found"]
               /\ woken' = signal(woken)
               /\ UNCHANGED <<subscribers, toNotify, timeout>>
    /\ cpc' = [cpc EXCEPT ![t] = "return"]
    /\ args' = [args EXCEPT ![t] = NoArgs]
    /\ UNCHANGED <<shutdownFlag, wpc, wait, idx, cur, waitMutex, spc>>

\* Lines 89-97: lock mutex, then find, erase and signal(), or throw unless
\* dontFail.  Erasing the node `timeout` points into leaves that pointer
\* dangling.  The lock is released when the call returns (Return).
RemoveLocked(t) ==
    /\ Alive
    /\ cpc[t] = "remove_lock"
    /\ mutex = "none"
    /\ mutex' = t
    /\ LET element == TimerSubscriberElement(args[t].subscriber, 0,
                                             args[t].parameter, FALSE)
           it == Find(subscribers, element)
       IN IF it # 0
          THEN /\ subscribers' = RemoveAt(subscribers, it)
               /\ woken' = signal(woken)
               /\ result' = [result EXCEPT ![t] = "ok"]
               /\ toNotify' = SetRemoved(toNotify, element, TRUE)
               /\ timeout' = IF timeout = Ident(element) THEN Dangling ELSE timeout
          ELSE /\ result' = [result EXCEPT ![t] =
                                IF args[t].dontFail THEN "ok_absent" ELSE "not_found"]
               /\ UNCHANGED <<subscribers, woken, toNotify, timeout>>
    /\ cpc' = [cpc EXCEPT ![t] = "return"]
    /\ args' = [args EXCEPT ![t] = NoArgs]
    /\ UNCHANGED <<shutdownFlag, wpc, wait, idx, cur, waitMutex, spc>>

\* Return that leaves mutex locked.
Return_KeepLock(t) ==
    /\ Alive
    /\ cpc[t] = "return"
    /\ cpc' = [cpc EXCEPT ![t] = "idle"]
    /\ result' = [result EXCEPT ![t] = "none"]
    /\ UNCHANGED <<subscribers, mutex, shutdownFlag, woken, workerVars, args, spc>>

\* Lines 84, 98 (and the throws of lines 73, 79, 96): the AutoLock, if taken, is
\* released and the call returns to, or its exception reaches, the calling code.
Return(t) ==
    /\ Alive
    /\ cpc[t] = "return"
    /\ mutex' = IF mutex = t THEN "none" ELSE mutex
    /\ cpc' = [cpc EXCEPT ![t] = "idle"]
    /\ result' = [result EXCEPT ![t] = "none"]
    /\ UNCHANGED <<subscribers, shutdownFlag, woken, workerVars, args, spc>>

----------------------------------------------------------------------------
\* The worker thread: triggerWait()

\* A loop head that, on shutdown, runs one last notify pass when the registry
\* is not empty.
WLoop_FinalPass ==
    /\ wpc = "loop"
    /\ IF shutdownFlag
       THEN IF subscribers = <<>>
            THEN wpc' = "exited" /\ waitMutex' = "none"
            ELSE wpc' = "notify_lock" /\ UNCHANGED waitMutex
       ELSE wpc' = "check_empty" /\ UNCHANGED waitMutex
    /\ UNCHANGED <<subscribers, mutex, shutdownFlag, woken, timeout, wait,
                   idx, toNotify, cur, cpc, args, result, spc>>

\* Line 104: while (!shutdownFlag); leaving the loop returns from triggerWait
\* and releases waitMutex.
WLoop ==
    /\ wpc = "loop"
    /\ IF shutdownFlag
       THEN wpc' = "exited" /\ waitMutex' = "none"
       ELSE wpc' = "check_empty" /\ UNCHANGED waitMutex
    /\ UNCHANGED <<subscribers, mutex, shutdownFlag, woken, timeout, wait,
                   idx, toNotify, cur, cpc, args, result, spc>>

\* Lines 105-107: subscribers.empty(), read without holding mutex.  A caller's
\* mutation is one step (AddLocked, RemoveLocked), so this read sees the list
\* either before or after it.
WCheckEmpty ==
    /\ wpc = "check_empty"
    /\ wpc' = IF subscribers = <<>> THEN "enter_wait" ELSE "get_next"
    /\ UNCHANGED <<subscribers, mutex, waitMutex, shutdownFlag, woken, timeout, wait,
                   idx, toNotify, cur, cpc, args, result, spc>>

\* Line 109: cond.wait(lock) releases waitMutex and parks the worker.
WEnterWait ==
    /\ wpc = "enter_wait"
    /\ wpc' = "wait_inf"
    /\ waitMutex' = "none"
    /\ UNCHANGED <<subscribers, mutex, shutdownFlag, woken, timeout, wait,
                   idx, toNotify, cur, cpc, args, result, spc>>

\* Lines 166-177: the scan of getNextNotifyTime; `best` is the index of the
\* element nextTime points into, 0 for nullptr.
RECURSIVE ScanNextTime(_, _, _)
ScanNextTime(s, i, best) ==
    IF i > Len(s) THEN best
    ELSE ScanNextTime(s, i + 1,
            IF best = 0 \/ getDeltaMillis(s[best].nextNotify, s[i].nextNotify) < 0
            THEN i ELSE best)

getNextNotifyTime ==
    LET best == ScanNextTime(subscribers, 1, 0)
    IN IF best = 0 THEN NullPtr ELSE Ident(subscribers[best])

\* Line 113: timeout = getNextNotifyTime(), which locks mutex, scans and unlocks.
WGetNext ==
    /\ wpc = "get_next"
    /\ mutex = "none"
    /\ timeout' = getNextNotifyTime
    /\ wpc' = "compute"
    /\ UNCHANGED <<subscribers, mutex, waitMutex, shutdownFlag, woken, wait,
                   idx, toNotify, cur, cpc, args, result, spc>>

\* The values reading *timeout can yield.  A pointer into a registered element
\* yields its nextNotify; a null or dangling pointer is undefined behaviour:
\* any value, or a crash (WCrash).
Deref(ptr) ==
    IF \E i \in DOMAIN subscribers : Ident(subscribers[i]) = ptr
    THEN {subscribers[i].nextNotify : i \in {j \in DOMAIN subscribers :
                                                Ident(subscribers[j]) = ptr}}
    ELSE 0..MaxInterval

\* Lines 114-118: read the clock, wait = getDeltaMillis(&now, timeout), and
\* branch on wait > 0.
WCompute ==
    /\ wpc = "compute"
    /\ \E deadline \in Deref(timeout) :
          LET w == getDeltaMillis(getTimespecNow, deadline)
          IN /\ wait' = IF w > 0 THEN w ELSE 0
             /\ wpc' = IF w > 0 THEN "enter_wait_for" ELSE "notify_lock"
    /\ timeout' = NoPtr
    /\ UNCHANGED <<subscribers, mutex, waitMutex, shutdownFlag, woken,
                   idx, toNotify, cur, cpc, args, result, spc>>

\* Line 117 with timeout null or dangling: the process may die.
WCrash ==
    /\ wpc = "compute"
    /\ timeout \in {NullPtr, Dangling}
    /\ wpc' = "crashed"
    /\ UNCHANGED <<subscribers, mutex, waitMutex, shutdownFlag, woken, timeout, wait,
                   idx, toNotify, cur, cpc, args, result, spc>>

\* Line 119: cond.wait_for(lock, wait) releases waitMutex and parks the worker.
WEnterWaitFor ==
    /\ wpc = "enter_wait_for"
    /\ wpc' = "wait_timed"
    /\ waitMutex' = "none"
    /\ UNCHANGED <<subscribers, mutex, shutdownFlag, woken, timeout, wait,
                   idx, toNotify, cur, cpc, args, result, spc>>

\* Lines 119-120, 128: wait_for returns cv_status::timeout once the sleep has
\* run out; the worker holds waitMutex again and goes on to notify().
WTimeout ==
    /\ wpc = "wait_timed"
    /\ wait = 0
    /\ wpc' = "notify_lock"
    /\ waitMutex' = Worker
    /\ woken' = FALSE
    /\ UNCHANGED <<subscribers, mutex, shutdownFlag, timeout, wait,
                   idx, toNotify, cur, cpc, args, result, spc>>

\* A notified timed wait that goes on to notify() instead of the loop head.
WWake_Notify ==
    /\ Parked
    /\ woken
    /\ wpc' = IF wpc = "wait_timed" THEN "notify_lock" ELSE "loop"
    /\ waitMutex' = Worker
    /\ woken' = FALSE
    /\ wait' = 0
    /\ UNCHANGED <<subscribers, mutex, shutdownFlag, timeout,
                   idx, toNotify, cur, cpc, args, result, spc>>

\* Lines 109-110, 120-125: a notified wait returns; continue at the loop head.
WWake ==
    /\ Parked
    /\ woken
    /\ wpc' = "loop"
    /\ waitMutex' = Worker
    /\ woken' = FALSE
    /\ wait' = 0
    /\ UNCHANGED <<subscribers, mutex, shutdownFlag, timeout,
                   idx, toNotify, cur, cpc, args, result, spc>>

\* A condition-variable wait may also return spuriously.
WSpurious ==
    /\ Parked
    /\ ~woken
    /\ wpc' = "loop"
    /\ waitMutex' = Worker
    /\ wait' = 0
    /\ UNCHANGED <<subscribers, mutex, shutdownFlag, woken, timeout,
                   idx, toNotify, cur, cpc, args, result, spc>>

----------------------------------------------------------------------------
\* The worker thread: notify()

\* Line 134: std::unique_lock lock(mutex); line 137: empty batch.
WNotifyLock ==
    /\ wpc = "notify_lock"
    /\ mutex = "none"
    /\ mutex' = Worker
    /\ idx' = 1
    /\ toNotify' = <<>>
    /\ wpc' = "scan"
    /\ UNCHANGED <<subscribers, waitMutex, shutdownFlag, woken, timeout, wait,
                   cur, cpc, args, result, spc>>

\* A due test that fires one millisecond early.
IsDue_Early(w) == w <= 1

\* Line 146: the due test on wait = getDeltaMillis(&now, nextNotify).
IsDue(w) == w <= 0

\* A scan step that advances the iterator past the element following an
\* erased one-shot element.
WScanStep_SkipAfterErase ==
    /\ wpc = "scan"
    /\ idx <= Len(subscribers)
    /\ LET element == subscribers[idx]
           w == getDeltaMillis(getTimespecNow, element.nextNotify)
       IN IF IsDue(w)
          THEN /\ toNotify' = Append(toNotify,
                      [subscriber |-> element.subscriber,
                       parameter |-> element.parameter,
                       once |-> element.once, wait |-> w,
                       removed |-> FALSE])
               /\ IF element.once
                  THEN subscribers' = RemoveAt(subscribers, idx) /\ idx' = idx + 1
                  ELSE /\ subscribers' = [subscribers EXCEPT
                                             ![idx] = updateNextNotify(element)]
                       /\ idx' = idx + 1
          ELSE /\ idx' = idx + 1
               /\ UNCHANGED <<subscribers, toNotify>>
    /\ UNCHANGED <<mutex, waitMutex, shutdownFlag, woken, wpc, timeout, wait,
                   cur, cpc, args, result, spc>>

\* A scan step that erases every batched element, repeating or not.
WScanStep_EraseAll ==
    /\ wpc = "scan"
    /\ idx <= Len(subscribers)
    /\ LET element == subscribers[idx]
           w == getDeltaMillis(getTimespecNow, element.nextNotify)
       IN IF IsDue(w)
          THEN /\ toNotify' = Append(toNotify,
                      [subscriber |-> element.subscriber,
                       parameter |-> element.parameter,
                       once |-> element.once, wait |-> w,
                       removed |-> FALSE])
               /\ subscribers' = RemoveAt(subscribers, idx)
               /\ idx' = idx
          ELSE /\ idx' = idx + 1
               /\ UNCHANGED <<subscribers, toNotify>>
    /\ UNCHANGED <<mutex, waitMutex, shutdownFlag, woken, wpc, timeout, wait,
                   cur, cpc, args, result, spc>>

\* Lines 139-157: one iteration of the scan, on the element under `it`.
WScanStep ==
    /\ wpc = "scan"
    /\ idx <= Len(subscribers)
    /\ LET element == subscribers[idx]
           w == getDeltaMillis(getTimespecNow, element.nextNotify)
       IN IF IsDue(w)
          THEN /\ toNotify' = Append(toNotify,
                      [subscriber |-> element.subscriber,
                       parameter |-> element.parameter,
                       once |-> element.once, wait |-> w,
                       removed |-> FALSE])
               /\ IF element.once
                  THEN subscribers' = RemoveAt(subscribers, idx) /\ idx' = idx
                  ELSE /\ subscribers' = [subscribers EXCEPT
                                             ![idx] = updateNextNotify(element)]
                       /\ idx' = idx + 1
          ELSE /\ idx' = idx + 1
               /\ UNCHANGED <<subscribers, toNotify>>
    /\ UNCHANGED <<mutex, waitMutex, shutdownFlag, woken, wpc, timeout, wait,
                   cur, cpc, args, result, spc>>

\* WScanEnd without the unlock of line 160.
WScanEnd_KeepLock ==
    /\ wpc = "scan"
    /\ idx > Len(subscribers)
    /\ idx' = 0
    /\ wpc' = "fire"
    /\ UNCHANGED <<subscribers, mutex, waitMutex, shutdownFlag, woken, timeout, wait,
                   toNotify, cur, cpc, args, result, spc>>

\* Lines 157-160: the scan is over; unlock mutex before the callbacks.
WScanEnd ==
    /\ wpc = "scan"
    /\ idx > Len(subscribers)
    /\ mutex' = "none"
    /\ idx' = 0
    /\ wpc' = "fire"
    /\ UNCHANGED <<subscribers, waitMutex, shutdownFlag, woken, timeout, wait,
                   toNotify, cur, cpc, args, result, spc>>

\* Lines 161-162: element.notify() is entered for the next batched element.
WCallbackStart ==
    /\ wpc = "fire"
    /\ toNotify # <<>>
    /\ cur' = [subscriber |-> Head(toNotify).subscriber,
               parameter |-> Head(toNotify).parameter]
    /\ toNotify' = Tail(toNotify)
    /\ wpc' = "in_callback"
    /\ UNCHANGED <<subscribers, mutex, waitMutex, shutdownFlag, woken, timeout, wait,
                   idx, cpc, args, result, spc>>

\* The observer's callback returns (any registry call it made has returned).
WCallbackReturn ==
    /\ wpc = "in_callback"
    /\ cpc[Worker] = "idle"
    /\ cur' = NoElement
    /\ wpc' = "fire"
    /\ UNCHANGED <<subscribers, mutex, waitMutex, shutdownFlag, woken, timeout, wait,
                   idx, toNotify, cpc, args, result, spc>>

\* Lines 163-164, 129: notify() returns to the loop head.
WNotifyReturn ==
    /\ wpc = "fire"
    /\ toNotify = <<>>
    /\ wpc' = "loop"
    /\ UNCHANGED <<subscribers, mutex, waitMutex, shutdownFlag, woken, timeout, wait,
                   idx, toNotify, cur, cpc, args, result, spc>>

----------------------------------------------------------------------------
\* shutdown(), called by a thread of its own once the worker has been started

\* Line 181
ShutdownSetFlag ==
    /\ Alive
    /\ spc = "idle"
    /\ wpc # "notstarted"
    /\ shutdownFlag' = TRUE
    /\ spc' = "notify_all"
    /\ UNCHANGED <<subscribers, mutex, woken, workerVars, cpc, args, result>>

\* Line 182: cond.notify_all(), without holding waitMutex.
ShutdownNotifyAll ==
    /\ Alive
    /\ spc = "notify_all"
    /\ woken' = signal(woken)
    /\ spc' = "join"
    /\ UNCHANGED <<subscribers, mutex, shutdownFlag, workerVars, cpc, args, result>>

\* Line 183: pthread_join returns once the worker thread has exited.
ShutdownJoin ==
    /\ spc = "join"
    /\ wpc = "exited"
    /\ spc' = "returned"
    /\ UNCHANGED <<subscribers, mutex, shutdownFlag, woken, workerVars, cpc, args,
                   result>>

----------------------------------------------------------------------------
\* One millisecond passes: every timestamp in the future moves one closer to
\* the clock, and so does the deadline `wait` counts down to.  The sleep of
\* wait_for is counted from the clock reading of line 115: it can time out once
\* the deadline it was computed from has come, at any later time.
Age(ts) == IF ts > 0 THEN ts - 1 ELSE ts

Tick ==
    /\ Alive
    /\ subscribers' = [i \in DOMAIN subscribers |->
                          [subscribers[i] EXCEPT !.nextNotify = Age(@)]]
    /\ wait' = IF wait > 0 THEN wait - 1 ELSE wait
    /\ UNCHANGED <<mutex, waitMutex, shutdownFlag, woken, wpc, timeout, idx,
                   toNotify, cur, cpc, args, result, spc>>

----------------------------------------------------------------------------
WorkerNext ==
    \/ WLoop \/ WCheckEmpty \/ WEnterWait \/ WGetNext \/ WCompute \/ WCrash
    \/ WEnterWaitFor \/ WTimeout \/ WWake \/ WSpurious
    \/ WNotifyLock \/ WScanStep \/ WScanEnd
    \/ WCallbackStart \/ WCallbackReturn \/ WNotifyReturn

CallerNext ==
    \E t \in Threads :
        \/ \E s \in Observers, i \in Intervals, p \in Parameters, o \in BOOLEAN :
              AddCall(t, s, i, p, o)
        \/ AddLocked(t)
        \/ \E s \in Observers, p \in Parameters, d \in BOOLEAN :
              RemoveCall(t, s, p, d)
        \/ RemoveLocked(t)
        \/ Return(t)

ShutdownNext == ShutdownSetFlag \/ ShutdownNotifyAll \/ ShutdownJoin

Next == Run \/ WorkerNext \/ CallerNext \/ ShutdownNext \/ Tick

Spec == Init /\ [][Next]_vars

TypeOK ==
    /\ mutex \in Threads \cup {"none"}
    /\ waitMutex \in {"none", Worker}
    /\ woken => Parked
    /\ wait \in 0..MaxInterval
    /\ wait > 0 => wpc \in {"enter_wait_for", "wait_timed"}
    /\ Len(subscribers) <= Cardinality(Ids)

\* Fairness: time passes, and every thread that can take a step of the code
\* eventually takes one (a lock that keeps becoming free is eventually got).
\* Nothing obliges a thread to start a call of the registry or of shutdown(),
\* a spurious wake-up to happen, or undefined behaviour to end in a crash.
WorkerSteps ==
    \/ WLoop \/ WCheckEmpty \/ WEnterWait \/ WGetNext \/ WCompute
    \/ WEnterWaitFor \/ WTimeout \/ WWake
    \/ WNotifyLock \/ WScanStep \/ WScanEnd
    \/ WCallbackStart \/ WCallbackReturn \/ WNotifyReturn

CallSteps(t) == AddLocked(t) \/ RemoveLocked(t) \/ Return(t)

FairSpec ==
    /\ Spec
    /\ WF_vars(Tick)
    /\ WF_vars(Run)
    /\ SF_vars(WorkerSteps)
    /\ \A t \in Threads : SF_vars(CallSteps(t))
    /\ WF_vars(ShutdownNotifyAll \/ ShutdownJoin)

----------------------------------------------------------------------------
\* Properties

Registered(s, p) ==
    \E i \in DOMAIN subscribers :
        subscribers[i].subscriber = s /\ subscribers[i].parameter = p

\* C1: every element in the firing batch was batched by a clock reading at or
\* after its nextNotify (the recorded wait = nextNotify - now is not positive),
\* so no callback is invoked before its deadline.
C1_NeverBeforeDeadline ==
    \A i \in DOMAIN toNotify : toNotify[i].wait <= 0

C1_Witness ==
    /\ wpc = "in_callback"
    /\ toNotify # <<>>

\* C2: when the worker invokes a callback, no removal of that (observer,
\* parameter) pair has succeeded and returned since the pair was batched
\* (unless the pair was registered again).
C2_NoNotifyAfterRemove ==
    [][(wpc = "fire" /\ wpc' = "in_callback")
          => ~(Head(toNotify).removed /\ \A t \in Threads : cpc[t] # "return")]_vars

\* C3: once shutdown() has set the flag and notified the condition variable,
\* the worker leaves its loop and shutdown() returns (unless the process has
\* crashed).
C3_ShutdownReturns ==
    (spc = "join") ~> (spc = "returned" \/ wpc = "crashed")

\* C4: while the worker is parked in its timed wait with no wake-up pending, the
\* deadline it sleeps towards is not later than the deadline of any registered
\* entry: a registration with an earlier deadline has made it recompute.
C4_SleepTargetIsNearest ==
    (wpc = "wait_timed" /\ ~woken) =>
        \A i \in DOMAIN subscribers : wait <= subscribers[i].nextNotify

C6_NoDeadlock ==
    /\ cpc[Worker] \in {"add_lock", "remove_lock"} => mutex # Worker
    /\ \A t \in Threads :
          mutex = t => \/ cpc[t] = "return"
                       \/ t = Worker /\ wpc = "scan"
    /\ waitMutex \in {"none", Worker}

C6_Witness ==
    /\ wpc = "in_callback"
    /\ cpc[Worker] \in {"add_lock", "remove_lock"}
    /\ mutex = "c1"

\* C7: a registered one-shot entry is eventually fired and removed (or removed
\* by a caller), provided shutdown is not requested and the process does not
\* crash.
C7_OnceEventuallyFires ==
    \A s \in Observers, p \in Parameters :
        (\E i \in DOMAIN subscribers :
            /\ subscribers[i].subscriber = s
            /\ subscribers[i].parameter = p
            /\ subscribers[i].once
            /\ wpc # "notstarted")
        ~> (~Registered(s, p) \/ shutdownFlag \/ wpc = "crashed")

\* C8: the registry holds at most one entry per (observer, parameter) pair.
C8_UniqueIdentity ==
    \A i, j \in DOMAIN subscribers :
        ElemEq(subscribers[i], subscribers[j]) => i = j

C8_Witness ==
    /\ Len(subscribers) = Cardinality(Ids)
    /\ \E t \in Threads : cpc[t] = "add_lock" /\ Registered(args[t].subscriber,
                                                          args[t].parameter)

C10_ZeroIntervalRejected ==
    /\ [](\A i \in DOMAIN subscribers : subscribers[i].notifyInterval > 0)
    /\ [][\A t \in Threads :
            /\ (cpc[t] = "idle" /\ cpc'[t] = "add_lock")
                  => args'[t].notifyInterval > 0
            /\ (cpc[t] = "idle" /\ cpc'[t] = "return")
                  => (/\ result'[t] = "invalid_interval"
                      /\ subscribers' = subscribers
                      /\ mutex' = mutex
                      /\ woken' = woken)]_vars

C10_Witness ==
    \E t \in Threads :
        /\ result[t] = "invalid_interval"
        /\ subscribers # <<>>
        /\ Parked

\* C11: a removeTimerSubscriber of a pair that is not in the registry ends with
\* the not-found error when dontFail is false and returns normally when
\* dontFail is true; either way it changes neither the registry nor the
\* wake-up state of the worker.
C11_AbsentRemove ==
    [][\A t \in Threads :
          (/\ cpc[t] = "remove_lock"
           /\ cpc'[t] = "return"
           /\ ~Registered(args[t].subscriber, args[t].parameter))
          => (/\ result'[t] = (IF args[t].dontFail THEN "ok_absent" ELSE "not_found")
              /\ subscribers' = subscribers
              /\ woken' = woken)]_vars

C11_Witness ==
    /\ \E t \in Threads : result[t] \in {"ok_absent", "not_found"}
    /\ subscribers # <<>>
    /\ Parked
    /\ ~woken

\* C12: a repeating entry leaves the registry only by a removeTimerSubscriber
\* of its (observer, parameter) pair.  Any other step (of the worker's loop, of
\* notify(), of addTimerSubscriber, of shutdown(), of the clock) keeps it
\* registered and repeating, with its interval.
C12_RepeatingStays ==
    [][\A i \in DOMAIN subscribers :
          ~subscribers[i].once =>
             \/ \E j \in DOMAIN subscribers' :
                   /\ ElemEq(subscribers'[j], subscribers[i])
                   /\ ~subscribers'[j].once
                   /\ subscribers'[j].notifyInterval = subscribers[i].notifyInterval
             \/ \E t \in Threads :
                   /\ cpc[t] = "remove_lock"
                   /\ cpc'[t] = "return"
                   /\ args[t].subscriber = subscribers[i].subscriber
                   /\ args[t].parameter = subscribers[i].parameter]_vars

\* The scan has batched and rescheduled the repeating entry at the head of the
\* registry, which is still there.
C12_Witness ==
    /\ wpc = "scan"
    /\ idx > 1
    /\ toNotify # <<>>
    /\ ~toNotify[1].once
    /\ ~subscribers[1].once
    /\ Ident(subscribers[1]) = Ident(toNotify[1])
    /\ subscribers[1].nextNotify = subscribers[1].notifyInterval
    /\ shutdownFlag

\* C13: a repeating entry keeps firing.  Whenever a repeating entry is
\* registered with the worker running and outside a callback, a callback of
\* that entry is eventually entered again, unless the entry is removed,
\* shutdown is requested or the process crashes.
C13_RepeatingKeepsFiring ==
    \A s \in Observers, p \in Parameters :
        (/\ \E i \in DOMAIN subscribers :
               /\ subscribers[i].subscriber = s
               /\ subscribers[i].parameter = p
               /\ ~subscribers[i].once
         /\ wpc \notin {"notstarted", "in_callback"})
        ~> (\/ wpc = "in_callback" /\ cur = [subscriber |-> s, parameter |-> p]
            \/ ~Registered(s, p)
            \/ shutdownFlag
            \/ wpc = "crashed")

\* C14: the worker that finds shutdownFlag set at the head of its loop leaves
\* the loop at once, for good: its next step is the exit, not a notify pass;
\* having exited it never takes another step; and it exits with no batch left
\* to fire, no callback running and no lock held, whatever entries are due.
C14_StoppedIsSilent ==
    /\ [](wpc = "exited" =>
            /\ toNotify = <<>>
            /\ cur = NoElement
            /\ mutex # Worker
            /\ waitMutex # Worker)
    /\ [][/\ (wpc = "loop" /\ shutdownFlag) => wpc' \in {"loop", "exited"}
          /\ wpc = "exited" => UNCHANGED <<workerVars, cpc[Worker]>>]_vars

\* The worker has exited while an entry of the registry is due.
C14_Witness ==
    /\ wpc = "exited"
    /\ \E i \in DOMAIN subscribers : subscribers[i].nextNotify = 0

\* C15: a timed wait that ends before its time has run out takes the worker to
\* the head of the loop, from where it tests shutdownFlag, then the emptiness
\* of the registry, then reads the nearest deadline again; and notify() is
\* entered only from a timed wait whose time has run out or from a computed
\* wait that is not positive.
C15_WakeNeverFires ==
    [][/\ (wpc = "wait_timed" /\ wpc' # "wait_timed" /\ wait > 0) => wpc' = "loop"
       /\ (wpc = "loop" /\ wpc' # "loop") => wpc' \in {"exited", "check_empty"}
       /\ (wpc = "check_empty" /\ wpc' # "check_empty")
             => wpc' \in {"enter_wait", "get_next"}
       /\ (wpc = "get_next" /\ wpc' # "get_next") => wpc' = "compute"
       /\ (wpc # "notify_lock" /\ wpc' = "notify_lock")
             => \/ wpc = "wait_timed" /\ wait = 0
                \/ wpc = "compute" /\ wait' = 0
       /\ (wpc # "scan" /\ wpc' = "scan") => wpc = "notify_lock"]_vars

\* The worker is in its timed wait, the time has not run out, and a
\* notification has reached it.
C15_Witness ==
    /\ wpc = "wait_timed"
    /\ wait > 0
    /\ woken
    /\ ~shutdownFlag
    /\ \E i \in DOMAIN subscribers : subscribers[i].nextNotify = 0

\* C16: while the worker is parked with no wake-up pending and no registry
\* call in progress, it is in the timed wait exactly when the registry is not
\* empty: never in the timed wait with an empty registry, never in the
\* indefinite wait with an entry registered.
C16_SleepMatchesRegistry ==
    (Parked /\ ~woken /\ \A t \in Threads : cpc[t] = "idle")
        => (wpc = "wait_timed" <=> subscribers # <<>>)

\* C17: one notify pass handles exactly the due entries.  The scan examines the
\* registry front to back, each entry once.  An entry that is due when examined
\* (nextNotify at or before the clock) is appended to the batch; if one-shot it
\* is erased and the scan stays on the entry that followed it, if repeating its
\* nextNotify becomes now + interval.  An entry that is not due is left as it
\* is and out of the batch.  Entries other than the examined one are untouched.
\* So, during the scan, no identity is in the batch twice, no batched one-shot
\* entry is in the registry and every batched repeating entry is among the
\* entries already examined.  After the scan the callbacks are entered one by
\* one from the head of the batch, and notify() returns only with the batch
\* used up; the batch changes length at no other step.
C17_NotifyPass ==
    /\ [](wpc = "scan" =>
            /\ \A k, l \in DOMAIN toNotify :
                  Ident(toNotify[k]) = Ident(toNotify[l]) => k = l
            /\ \A k \in DOMAIN toNotify :
                  IF toNotify[k].once
                  THEN ~Registered(toNotify[k].subscriber, toNotify[k].parameter)
                  ELSE \E j \in 1..(idx - 1) :
                          /\ j \in DOMAIN subscribers
                          /\ Ident(subscribers[j]) = Ident(toNotify[k])
                          /\ ~subscribers[j].once)
    /\ [][/\ (/\ wpc = "scan"
              /\ wpc' = "scan"
              /\ (idx' # idx \/ Len(toNotify') # Len(toNotify)))
             => LET element == subscribers[idx]
                    copy == [subscriber |-> element.subscriber,
                             parameter |-> element.parameter,
                             once |-> element.once,
                             wait |-> element.nextNotify,
                             removed |-> FALSE]
                IN /\ idx \in DOMAIN subscribers
                   /\ IF element.nextNotify <= 0
                      THEN /\ toNotify' = Append(toNotify, copy)
                           /\ IF element.once
                              THEN /\ subscribers' = RemoveAt(subscribers, idx)
                                   /\ idx' = idx
                              ELSE /\ subscribers' = [subscribers EXCEPT
                                          ![idx].nextNotify = element.notifyInterval]
                                   /\ idx' = idx + 1
                      ELSE /\ toNotify' = toNotify
                           /\ subscribers' = subscribers
                           /\ idx' = idx + 1
          /\ (wpc = "scan" /\ wpc' # "scan")
                => (idx > Len(subscribers) /\ wpc' = "fire" /\ toNotify' = toNotify)
          /\ (wpc = "fire" /\ wpc' # "fire")
                => \/ /\ wpc' = "in_callback"
                      /\ toNotify # <<>>
                      /\ cur' = [subscriber |-> Head(toNotify).subscriber,
                                  parameter |-> Head(toNotify).parameter]
                      /\ toNotify' = Tail(toNotify)
                   \/ wpc' = "loop" /\ toNotify = <<>>
          /\ (wpc = "in_callback" /\ wpc' # "in_callback")
                => (wpc' = "fire" /\ Len(toNotify') = Len(toNotify))
          /\ Len(toNotify') # Len(toNotify)
                => (wpc = "scan" \/ (wpc = "fire" /\ wpc' = "in_callback"))]_vars

\* The scan is over: it has batched a due one-shot entry and, after it, a due
\* repeating entry; the one-shot entry is gone and the repeating entry is
\* rescheduled one interval ahead.
C17_Witness ==
    /\ wpc = "scan"
    /\ idx > Len(subscribers)
    /\ Len(toNotify) = 2
    /\ toNotify[1].once
    /\ ~toNotify[2].once
    /\ Len(subscribers) = 1
    /\ Ident(subscribers[1]) = Ident(toNotify[2])
    /\ subscribers[1].nextNotify = subscribers[1].notifyInterval

\* C18: a removeTimerSubscriber of a pair that is in the registry succeeds,
\* takes exactly one entry out, the one of that pair whatever its interval and
\* once flag, leaves the other entries as they were and in their order, and
\* signals the worker: a worker parked on the condition variable is woken.
C18_RemoveExactlyOne ==
    [][\A t \in Threads :
          (/\ cpc[t] = "remove_lock"
           /\ cpc'[t] = "return"
           /\ Registered(args[t].subscriber, args[t].parameter))
          => (/\ result'[t] = "ok"
              /\ LET Other(e) == ~(/\ e.subscriber = args[t].subscriber
                                     /\ e.parameter = args[t].parameter)
                 IN subscribers' = SelectSeq(subscribers, Other)
              /\ Len(subscribers') = Len(subscribers) - 1
              /\ Parked => woken')]_vars

\* A callback has removed its own repeating entry, successfully, while another
\* entry is registered.
C18_Witness ==
    /\ wpc = "in_callback"
    /\ cpc[Worker] = "return"
    /\ result[Worker] = "ok"
    /\ mutex = Worker
    /\ ~Registered(cur.subscriber, cur.parameter)
    /\ Len(subscribers) = 1

\* C19: when the worker reads the deadline through `timeout` (line 117), the
\* pointer is neither null nor dangling: it points into an entry that is in
\* the registry.
C19_DeadlineBelongsToEntry ==
    wpc = "compute" =>
        /\ timeout \notin {NullPtr, Dangling}
        /\ \E i \in DOMAIN subscribers : Ident(subscribers[i]) = timeout

\* C20: every access to the subscriber collection is made by a thread that
\* holds mutex.  A caller's insert or erase is made with mutex taken by that
\* caller; the scan of notify() runs with mutex held by the worker; and the
\* worker's emptiness test and deadline scan are made while no other thread
\* holds mutex, so they overlap no critical section of another thread.
C20_AccessUnderLock ==
    [][/\ \A t \in Threads :
            (cpc[t] \in {"add_lock", "remove_lock"} /\ cpc'[t] = "return")
               => (mutex = "none" /\ mutex' = t)
       /\ (wpc = "scan" /\ (idx' # idx \/ Len(toNotify') # Len(toNotify)))
             => (mutex = Worker /\ mutex' = Worker)
       /\ (wpc \in {"check_empty", "get_next"} /\ wpc' # wpc)
             => mutex \in {"none", Worker}]_vars

====
